---- MODULE Spec2Model ----
(***************************************************************************)
(* Rule-based shipping: the rate-quotation engine and the HTTP handlers    *)
(* around it.                                                              *)
(*                                                                         *)
(* The repository holds two revisions of web/index.js: one keeps the       *)
(* carriers in an in-memory array (src/web/index.js), the other in a       *)
(* PostgreSQL table (src/unnamed/part_000).  The database revision is also *)
(* served by the route module src/web/routes/shipping.js, which calls      *)
(* calculateShippingRates of src/web/services/shipping.js.  A deployment   *)
(* runs one revision; `store` says which.                                  *)
(***************************************************************************)
EXTENDS Integers, Sequences, FiniteSets, TLC

VARIABLES
    store,      \* "memory" | "database": the revision that is deployed
    carriers,   \* the in-memory `carriers` array of src/web/index.js
    table,      \* the rows of the `carriers` table (a set: a table has no order)
    response,   \* the HTTP exchange just answered, with the handler's locals
    args,       \* a direct caller of the service module: the request and the
                \* carrier array it holds and passes to the functions
    out,        \* what the last direct call returned, with the inputs it got
    prev,       \* the weight and parcel count of an earlier direct call
    launcher    \* the process of src/start-dev.js, with the files it writes

vars == <<store, carriers, table, response, args, out, prev, launcher>>
web == <<store, carriers, table, response>>
core == <<args, out, prev>>

(***************************************************************************)
(* Bounds of the model.                                                    *)
(***************************************************************************)
MaxItems == 2        \* line items in one rate request
MaxTickAt == 1       \* the latest Date.now() call at which the clock may tick
MaxCoreItems == 3    \* items in a list passed to the service module directly
MaxOutputs == 3      \* data events of cloudflared in one run of the launcher
MaxWords == 2        \* words in one chunk of cloudflared output

(***************************************************************************)
(* JavaScript values.  A number is an exact fraction n/d (d > 0) or NaN;   *)
(* every number the handlers compute from the sampled inputs is far below  *)
(* 2^53 and the two divisions (by 1000 and by 31.5) are followed by        *)
(* Math.ceil, whose result on a double differs from the exact one only for *)
(* weights beyond 10^11 grams, so the fraction is what the double holds.   *)
(* `t` is the typeof the value: a missing field is "undefined", a          *)
(* non-numeric string is "string".                                         *)
(***************************************************************************)
Frac(n, d) == [t |-> "number", nan |-> FALSE, n |-> n, d |-> d]
Num(n) == Frac(n, 1)
NaN == [t |-> "number", nan |-> TRUE, n |-> 0, d |-> 1]
Undefined == [t |-> "undefined", nan |-> FALSE, n |-> 0, d |-> 1]
Text == [t |-> "string", nan |-> FALSE, n |-> 0, d |-> 1]

\* ToNumber: undefined and a non-numeric string become NaN
ToNumber(x) == IF x.t = "number" THEN x ELSE NaN

JsMul(a, b) ==
    LET x == ToNumber(a)
        y == ToNumber(b)
    IN IF x.nan \/ y.nan THEN NaN ELSE Frac(x.n * y.n, x.d * y.d)

JsAdd(a, b) ==
    LET x == ToNumber(a)
        y == ToNumber(b)
    IN IF x.nan \/ y.nan THEN NaN ELSE Frac(x.n * y.d + y.n * x.d, x.d * y.d)

JsSub(a, b) ==
    LET x == ToNumber(a)
        y == ToNumber(b)
    IN IF x.nan \/ y.nan THEN NaN ELSE Frac(x.n * y.d - y.n * x.d, x.d * y.d)

\* a / b for a positive divisor b (the code divides by 1000 and by 31.5 only)
JsDiv(a, b) ==
    LET x == ToNumber(a)
        y == ToNumber(b)
    IN IF x.nan \/ y.nan THEN NaN ELSE Frac(x.n * y.d, x.d * y.n)

\* Math.ceil: the least integer >= x (-0 is 0 here: both print and serialise as 0)
MathCeilFloor(x) == IF x.nan THEN NaN ELSE Num(x.n \div x.d)
MathCeil(x) == IF x.nan THEN NaN ELSE Num(-((-x.n) \div x.d))

\* x > y on numbers: false when either is NaN
JsGt(x, y) == ~x.nan /\ ~y.nan /\ x.n * y.d > y.n * x.d

\* `${x}` for the numbers the templates print: integers and NaN
JsToString(x) == IF x.nan THEN "NaN" ELSE ToString(x.n)

\* String.prototype.toLowerCase on the sampled carrier names
toLowerCase(s) ==
    CASE s = "DPD" -> "dpd"
      [] s = "Post" -> "post"
      [] OTHER -> s

\* new Date(ms).toISOString(): the instant, as text
toISOString(ms) == [iso |-> ms]

(***************************************************************************)
(* Date.now(): the k-th call (k = 0, 1, ...) a handler makes while it      *)
(* builds the rates.  Time is counted from the request's arrival; the      *)
(* clock may advance by one millisecond before call number tickAt          *)
(* (tickAt = 0: it does not advance while the rates are built).            *)
(***************************************************************************)
DateNow(k, tickAt) == IF tickAt > 0 /\ k >= tickAt THEN 1 ELSE 0

DayMs == 86400000

(***************************************************************************)
(* Array.prototype.sort((a, b) => a.total_price - b.total_price): stable   *)
(* (ECMAScript 2019), and a comparator result of NaN counts as 0.          *)
(***************************************************************************)
comparePrice(a, b) == JsSub(a.total_price, b.total_price)

RECURSIVE InsertUnstable(_, _)
InsertUnstable(sorted, q) ==
    IF sorted = <<>> THEN <<q>>
    ELSE IF ~JsGt(Num(0), comparePrice(Head(sorted), q))
         THEN <<q>> \o sorted
         ELSE <<Head(sorted)>> \o InsertUnstable(Tail(sorted), q)

\* q goes behind every element that does not compare greater than it
RECURSIVE InsertStable(_, _)
InsertStable(sorted, q) ==
    IF sorted = <<>> THEN <<q>>
    ELSE IF JsGt(comparePrice(Head(sorted), q), Num(0))
         THEN <<q>> \o sorted
         ELSE <<Head(sorted)>> \o InsertStable(Tail(sorted), q)

RECURSIVE SortFrom(_, _)
SortFrom(done, rest) ==
    IF rest = <<>> THEN done
    ELSE SortFrom(InsertStable(done, Head(rest)), Tail(rest))

RECURSIVE SortFromUnstable(_, _)
SortFromUnstable(done, rest) ==
    IF rest = <<>> THEN done
    ELSE SortFromUnstable(InsertUnstable(done, Head(rest)), Tail(rest))

\* a sort that keeps one quote per price
InsertDropTie(sorted, q) ==
    IF \E k \in 1..Len(sorted) : sorted[k].total_price = q.total_price
    THEN sorted
    ELSE InsertStable(sorted, q)

RECURSIVE SortFromDropTies(_, _)
SortFromDropTies(done, rest) ==
    IF rest = <<>> THEN done
    ELSE SortFromDropTies(InsertDropTie(done, Head(rest)), Tail(rest))

ArraySortDropTies(rates) == SortFromDropTies(<<>>, rates)
ArraySortUnsorted(rates) == rates
ArraySortUnstable(rates) == SortFromUnstable(<<>>, rates)
ArraySort(rates) == SortFrom(<<>>, rates)

(***************************************************************************)
(* Inputs: sampled line items, currencies, request bodies.                 *)
(***************************************************************************)
Item(g, q) == [grams |-> g, quantity |-> q]

ItemSamples ==
    { Item(Num(5000), Num(2)),      \* 10 kg
      Item(Num(20000), Num(1)),     \* 20 kg
      Item(Num(0), Num(1)),         \* weightless
      Item(Num(31500), Num(1)),     \* exactly one full parcel
      Item(Num(31501), Num(1)),     \* one gram more
      Item(Num(-40000), Num(1)),    \* negative weight
      Item(Undefined, Num(1)),      \* grams missing
      Item(Num(5000), Text),        \* quantity not a number
      Item(Num(5000), Num(-1)) }    \* negative quantity

\* "" stands for a request without rate.currency
CurrencySamples == {"", "USD"}

RECURSIVE SeqsUpTo(_, _)
SeqsUpTo(S, n) ==
    IF n = 0 THEN {<<>>}
    ELSE LET shorter == SeqsUpTo(S, n - 1)
         IN shorter \cup {Append(s, x) : s \in {z \in shorter : Len(z) = n - 1}, x \in S}

\* a body with rate.items and rate.currency, and a body without `rate`
RateRequests ==
    {[rate |-> [items |-> its, currency |-> cur]] :
        its \in SeqsUpTo(ItemSamples, MaxItems), cur \in CurrencySamples}
    \cup {[rate |-> Undefined]}

NoLog == [weighed |-> FALSE, totalWeightKg |-> NaN, parcels |-> NaN]

(***************************************************************************)
(* src/web/services/shipping.js: calculateShippingRates.                   *)
(***************************************************************************)
\* a callback that adds the grams of one unit: (acc, item) => acc + item.grams
RECURSIVE reduceNoQuantity(_, _)
reduceNoQuantity(items, acc) ==
    IF items = <<>> THEN acc
    ELSE reduceNoQuantity(Tail(items), JsAdd(acc, ToNumber(Head(items).grams)))

\* a callback that forgets the accumulator: (acc, item) => item.grams * item.quantity
reduceLastOnly(items, acc) ==
    IF items = <<>> THEN acc
    ELSE JsMul(items[Len(items)].grams, items[Len(items)].quantity)

\* request.rate.items.reduce((acc, item) => acc + item.grams * item.quantity, 0)
RECURSIVE reduce(_, _)
reduce(items, acc) ==
    IF items = <<>> THEN acc
    ELSE reduce(Tail(items), JsAdd(acc, JsMul(Head(items).grams, Head(items).quantity)))

maxParcelWeight == Frac(315, 10)    \* 31.5

\* the object literal built for the i-th carrier (i = 0, 1, ...) of the list
serviceRateOwnCount(carrier, parcels, rate, i, tickAt) ==
    [service_name |-> carrier.name \o " (" \o JsToString(parcels) \o " parcel"
                      \o (IF JsGt(parcels, Num(1)) THEN "s" ELSE "") \o ")",
     service_code |-> toLowerCase(carrier.name),
     total_price |-> JsMul(carrier.price, JsAdd(parcels, Num(i))),
     currency |-> IF rate.currency # "" THEN rate.currency ELSE "EUR",
     min_delivery_date |-> toISOString(DateNow(2 * i, tickAt) + 1 * DayMs),
     max_delivery_date |-> toISOString(DateNow(2 * i + 1, tickAt) + 5 * DayMs),
     description |-> "Delivery via " \o carrier.name \o ", split into "
                     \o JsToString(parcels) \o " parcel(s)"]

\* a quote whose name takes the plural from one parcel on
serviceRatePluralFromOne(carrier, parcels, rate, i, tickAt) ==
    [service_name |-> carrier.name \o " (" \o JsToString(parcels) \o " parcel"
                      \o (IF JsGt(parcels, Num(0)) THEN "s" ELSE "") \o ")",
     service_code |-> toLowerCase(carrier.name),
     total_price |-> JsMul(carrier.price, parcels),
     currency |-> IF rate.currency # "" THEN rate.currency ELSE "EUR",
     min_delivery_date |-> toISOString(DateNow(2 * i, tickAt) + 1 * DayMs),
     max_delivery_date |-> toISOString(DateNow(2 * i + 1, tickAt) + 5 * DayMs),
     description |-> "Delivery via " \o carrier.name \o ", split into "
                     \o JsToString(parcels) \o " parcel(s)"]

serviceRate(carrier, parcels, rate, i, tickAt) ==
    [service_name |-> carrier.name \o " (" \o JsToString(parcels) \o " parcel"
                      \o (IF JsGt(parcels, Num(1)) THEN "s" ELSE "") \o ")",
     service_code |-> toLowerCase(carrier.name),
     total_price |-> JsMul(carrier.price, parcels),
     currency |-> IF rate.currency # "" THEN rate.currency ELSE "EUR",
     min_delivery_date |-> toISOString(DateNow(2 * i, tickAt) + 1 * DayMs),
     max_delivery_date |-> toISOString(DateNow(2 * i + 1, tickAt) + 5 * DayMs),
     description |-> "Delivery via " \o carrier.name \o ", split into "
                     \o JsToString(parcels) \o " parcel(s)"]

\* the result: it threw (request.rate is undefined: a TypeError), or the sorted
\* rates, with what it logged
calculateShippingRates(request, carrierList, tickAt) ==
    IF request.rate = Undefined
    THEN [threw |-> TRUE, rates |-> <<>>, log |-> NoLog]
    ELSE LET totalWeightGrams == reduce(request.rate.items, Num(0))
             totalWeightKg == JsDiv(totalWeightGrams, Num(1000))
             parcels == MathCeil(JsDiv(totalWeightKg, maxParcelWeight))
             rates == [k \in 1..Len(carrierList) |->
                          serviceRate(carrierList[k], parcels, request.rate, k - 1, tickAt)]
         IN [threw |-> FALSE,
             rates |-> ArraySort(rates),
             log |-> [weighed |-> TRUE, totalWeightKg |-> totalWeightKg,
                      parcels |-> parcels]]

(***************************************************************************)
(* res.json(body): JSON.stringify writes NaN as null and an undefined      *)
(* array element as null.                                                  *)
(***************************************************************************)
JsonNumber(x) == [null |-> x.nan, n |-> IF x.nan THEN 0 ELSE x.n]

JsonRate(q) ==
    IF q = Undefined THEN [null |-> TRUE]
    ELSE [null |-> FALSE,
          service_name |-> q.service_name,
          service_code |-> q.service_code,
          total_price |-> JsonNumber(q.total_price),
          currency |-> q.currency,
          min_delivery_date |-> q.min_delivery_date,
          max_delivery_date |-> q.max_delivery_date,
          description |-> q.description]

\* rates[0]: undefined on an empty array
First(rates) == IF rates = <<>> THEN Undefined ELSE rates[1]

ErrorBody == [error |-> "Error calculating shipping rates"]

\* a handler that answers and then answers again from its catch
RateResponseTwice(handler, status, body, request, fetched, seen, rates, log, queries) ==
    [handler |-> handler, status |-> status, body |-> body, request |-> request,
     fetched |-> fetched, carriers |-> seen, rates |-> rates, log |-> log,
     sent |-> <<status, 500>>, queries |-> queries]

\* what a rate handler leaves behind: the response it sent and its locals
\* (fetched: the carrier list was read; carriers: the list; rates: the sorted
\* rates; log: the weight and parcel count written to the console; sent: the
\* status of every res.status(..).json(..) call the handler made, in order;
\* queries: the outcome of every pool.query the handler awaited, in order)
RateResponse(handler, status, body, request, fetched, seen, rates, log, queries) ==
    [handler |-> handler, status |-> status, body |-> body, request |-> request,
     fetched |-> fetched, carriers |-> seen, rates |-> rates, log |-> log,
     sent |-> <<status>>, queries |-> queries]

NoResponse == [handler |-> "none"]

RateHandlers == {"memory", "database", "route"}

(***************************************************************************)
(* src/web/index.js: POST /carrier-service over the in-memory array.       *)
(***************************************************************************)
memRate(carrier, parcels, rate, i, tickAt) ==
    [service_name |-> carrier.name \o " (" \o JsToString(parcels) \o " parcel"
                      \o (IF JsGt(parcels, Num(1)) THEN "s" ELSE "") \o ")",
     service_code |-> toLowerCase(carrier.name),
     total_price |-> JsMul(carrier.price, parcels),
     currency |-> IF rate.currency # "" THEN rate.currency ELSE "EUR",
     min_delivery_date |-> toISOString(DateNow(2 * i, tickAt) + 1 * DayMs),
     max_delivery_date |-> toISOString(DateNow(2 * i + 1, tickAt) + 5 * DayMs),
     description |-> "Delivery via " \o carrier.name \o ", split into "
                     \o JsToString(parcels) \o " parcel(s)"]

memCarrierService(request, list, tickAt) ==
    IF request.rate = Undefined
    THEN RateResponse("memory", 500, ErrorBody, request, TRUE, list, <<>>, NoLog, <<>>)
    ELSE LET totalWeightGrams == reduce(request.rate.items, Num(0))
             totalWeightKg == JsDiv(totalWeightGrams, Num(1000))
             parcels == MathCeil(JsDiv(totalWeightKg, maxParcelWeight))
             rates == ArraySort([k \in 1..Len(list) |->
                          memRate(list[k], parcels, request.rate, k - 1, tickAt)])
             cheapestRate == First(rates)
         IN RateResponse("memory", 200, [rates |-> <<JsonRate(cheapestRate)>>],
                         request, TRUE, list, rates,
                         [weighed |-> TRUE, totalWeightKg |-> totalWeightKg,
                          parcels |-> parcels], <<>>)

(***************************************************************************)
(* The carriers table (src/web/database/connection.js creates it; the      *)
(* queries are those of web/database/models/carrier.js and web/database.js)*)
(***************************************************************************)
\* ORDER BY name on the sampled names, in byte order
nameRank(name) ==
    CASE name = "DPD" -> 1
      [] name = "Post" -> 2
      [] name = "dpd" -> 3
      [] OTHER -> 4

RECURSIVE orderByName(_)
orderByName(rows) ==
    IF rows = {} THEN <<>>
    ELSE LET first == CHOOSE r \in rows :
                          \A o \in rows : nameRank(r.name) <= nameRank(o.name)
         IN <<first>> \o orderByName(rows \ {first})

\* a getCarriers that queries a second time when the first query fails
getCarriersRetry(rows, dbOk) ==
    [threw |-> FALSE, rows |-> orderByName(rows),
     queries |-> IF dbOk THEN <<TRUE>> ELSE <<FALSE, TRUE>>]

\* getCarriers(): the query fails (it throws) or returns the rows by name
getCarriers(rows, dbOk) ==
    [threw |-> ~dbOk, rows |-> IF dbOk THEN orderByName(rows) ELSE <<>>,
     queries |-> <<dbOk>>]

(***************************************************************************)
(* src/unnamed/part_000: POST /carrier-service over the table.             *)
(***************************************************************************)
dbRate(carrier, parcels, rate, i, tickAt) ==
    [service_name |-> carrier.name \o " (" \o JsToString(parcels) \o " parcel"
                      \o (IF JsGt(parcels, Num(1)) THEN "s" ELSE "") \o ")",
     service_code |-> toLowerCase(carrier.name),
     total_price |-> JsMul(carrier.price, parcels),
     currency |-> IF rate.currency # "" THEN rate.currency ELSE "EUR",
     min_delivery_date |-> toISOString(DateNow(2 * i, tickAt) + 1 * DayMs),
     max_delivery_date |-> toISOString(DateNow(2 * i + 1, tickAt) + 5 * DayMs),
     description |-> "Delivery via " \o carrier.name \o ", split into "
                     \o JsToString(parcels) \o " parcel(s)"]

dbCarrierService(request, rows, dbOk, tickAt) ==
    LET got == getCarriers(rows, dbOk)
        list == got.rows
    IN IF got.threw
       THEN RateResponse("database", 500, ErrorBody, request, FALSE, <<>>, <<>>, NoLog, got.queries)
       ELSE IF Len(list) = 0
       THEN RateResponse("database", 200, [rates |-> <<>>], request, TRUE, list, <<>>, NoLog, got.queries)
       ELSE IF request.rate = Undefined
       THEN RateResponse("database", 500, ErrorBody, request, TRUE, list, <<>>, NoLog, got.queries)
       ELSE LET totalWeightGrams == reduce(request.rate.items, Num(0))
                totalWeightKg == JsDiv(totalWeightGrams, Num(1000))
                parcels == MathCeil(JsDiv(totalWeightKg, maxParcelWeight))
                rates == ArraySort([k \in 1..Len(list) |->
                             dbRate(list[k], parcels, request.rate, k - 1, tickAt)])
                cheapestRate == First(rates)
            IN RateResponse("database", 200, [rates |-> <<JsonRate(cheapestRate)>>],
                            request, TRUE, list, rates,
                            [weighed |-> TRUE, totalWeightKg |-> totalWeightKg,
                             parcels |-> parcels], got.queries)

(***************************************************************************)
(* src/web/routes/shipping.js: router.post("/").                           *)
(***************************************************************************)
routeShipping(request, rows, dbOk, tickAt) ==
    LET got == getCarriers(rows, dbOk)
        list == got.rows
    IN IF got.threw
       THEN RateResponse("route", 500, ErrorBody, request, FALSE, <<>>, <<>>, NoLog, got.queries)
       ELSE IF Len(list) = 0
       THEN RateResponse("route", 200, [rates |-> <<>>], request, TRUE, list, <<>>, NoLog, got.queries)
       ELSE LET calc == calculateShippingRates(request, list, tickAt)
            IN IF calc.threw
               THEN RateResponse("route", 500, ErrorBody, request, TRUE, list, <<>>, NoLog, got.queries)
               ELSE RateResponse("route", 200,
                                 [rates |-> <<JsonRate(First(calc.rates))>>],
                                 request, TRUE, list, calc.rates, calc.log, got.queries)

(***************************************************************************)
(* The admin API: /api/carriers.  Inputs: sampled names and prices.        *)
(***************************************************************************)
\* "" stands for a body without a name
NameSamples == {"DPD", "Post", "dpd"}
PriceSamples == {Num(1000), Num(1200), Frac(1, 2), Num(-5), Text}

\* x <= y on numbers: false when either is NaN
JsLe(x, y) == ~x.nan /\ ~y.nan /\ x.n * y.d <= y.n * x.d

\* parseInt(price, 10) of a positive number: its integer part
parseInt(price) == IF price.nan THEN NaN ELSE Num(price.n \div price.d)

AdminResponse(handler, status, body, name, price) ==
    [handler |-> handler, status |-> status, body |-> body,
     name |-> name, price |-> price]

Rejected(message) == [success |-> FALSE, error |-> message]
Accepted(list) == [success |-> TRUE, carriers |-> list]

\* the indices of the carriers whose name equals `name` ignoring case
sameName(list, name) ==
    {k \in 1..Len(list) : toLowerCase(list[k].name) = toLowerCase(name)}

\* carriers.filter(c => c.name.toLowerCase() !== name.toLowerCase())
RECURSIVE filterOut(_, _)
filterOut(list, name) ==
    IF list = <<>> THEN <<>>
    ELSE IF toLowerCase(Head(list).name) # toLowerCase(name)
         THEN <<Head(list)>> \o filterOut(Tail(list), name)
         ELSE filterOut(Tail(list), name)

(***************************************************************************)
(* src/web/index.js: the admin handlers over the in-memory array.  Each    *)
(* gives the new array and the response.                                   *)
(***************************************************************************)
\* a POST that pushes the carrier before it looks for a duplicate
memPostCarrierPushFirst(list, name, price) ==
    IF name = "" \/ price.t # "number" \/ JsLe(price, Num(0))
    THEN [list |-> list,
          res |-> AdminResponse("POST", 400,
                    Rejected("Invalid carrier data. Name and price (in cents) are required."),
                    name, price)]
    ELSE LET pushed == Append(list, [name |-> name, price |-> parseInt(price)])
         IN IF sameName(list, name) # {}
            THEN [list |-> pushed,
                  res |-> AdminResponse("POST", 400,
                            Rejected("A carrier with this name already exists"),
                            name, price)]
            ELSE [list |-> pushed,
                  res |-> AdminResponse("POST", 200, Accepted(pushed), name, price)]

memPostCarrier(list, name, price) ==
    IF name = "" \/ price.t # "number" \/ JsLe(price, Num(0))
    THEN [list |-> list,
          res |-> AdminResponse("POST", 400,
                    Rejected("Invalid carrier data. Name and price (in cents) are required."),
                    name, price)]
    ELSE IF sameName(list, name) # {}
    THEN [list |-> list,
          res |-> AdminResponse("POST", 400,
                    Rejected("A carrier with this name already exists"), name, price)]
    ELSE LET pushed == Append(list, [name |-> name, price |-> parseInt(price)])
         IN [list |-> pushed,
             res |-> AdminResponse("POST", 200, Accepted(pushed), name, price)]

memPutCarrier(list, name, price) ==
    IF price.t # "number" \/ JsLe(price, Num(0))
    THEN [list |-> list,
          res |-> AdminResponse("PUT", 400,
                    Rejected("Invalid price. Price (in cents) must be a positive number."),
                    name, price)]
    ELSE IF sameName(list, name) = {}
    THEN [list |-> list,
          res |-> AdminResponse("PUT", 404, Rejected("Carrier not found"), name, price)]
    ELSE LET carrierIndex == CHOOSE k \in sameName(list, name) :
                                 \A j \in sameName(list, name) : k <= j
             updated == [list EXCEPT ![carrierIndex].price = parseInt(price)]
         IN [list |-> updated,
             res |-> AdminResponse("PUT", 200, Accepted(updated), name, price)]

memDeleteCarrier(list, name) ==
    LET filtered == filterOut(list, name)
    IN IF Len(filtered) = Len(list)
       THEN [list |-> filtered,
             res |-> AdminResponse("DELETE", 404, Rejected("Carrier not found"),
                                   name, Undefined)]
       ELSE [list |-> filtered,
             res |-> AdminResponse("DELETE", 200, Accepted(filtered), name, Undefined)]

(***************************************************************************)
(* src/unnamed/part_000: the admin handlers over the table.  Each gives    *)
(* the new rows and the response.  name is UNIQUE in the table.            *)
(***************************************************************************)
dbPostCarrier(rows, name, price) ==
    IF name = "" \/ price.t # "number" \/ JsLe(price, Num(0))
    THEN [rows |-> rows,
          res |-> AdminResponse("POST", 400,
                    Rejected("Invalid carrier data. Name and price (in cents) are required."),
                    name, price)]
    ELSE IF \E r \in rows : r.name = name
    THEN [rows |-> rows,
          res |-> AdminResponse("POST", 400,
                    Rejected("A carrier with this name already exists"), name, price)]
    ELSE LET inserted == rows \cup {[name |-> name, price |-> parseInt(price)]}
         IN [rows |-> inserted,
             res |-> AdminResponse("POST", 200, Accepted(orderByName(inserted)),
                                   name, price)]

dbPutCarrier(rows, name, price) ==
    IF price.t # "number" \/ JsLe(price, Num(0))
    THEN [rows |-> rows,
          res |-> AdminResponse("PUT", 400,
                    Rejected("Invalid price. Price (in cents) must be a positive number."),
                    name, price)]
    ELSE IF ~\E r \in rows : r.name = name
    THEN [rows |-> rows,
          res |-> AdminResponse("PUT", 404, Rejected("Carrier not found"), name, price)]
    ELSE LET updated == {IF r.name = name
                         THEN [name |-> r.name, price |-> parseInt(price)]
                         ELSE r : r \in rows}
         IN [rows |-> updated,
             res |-> AdminResponse("PUT", 200, Accepted(orderByName(updated)),
                                   name, price)]

\* a DELETE whose WHERE clause compares names ignoring case
dbDeleteCarrierAnyCase(rows, name) ==
    IF ~\E r \in rows : r.name = name
    THEN [rows |-> rows,
          res |-> AdminResponse("DELETE", 404, Rejected("Carrier not found"),
                                name, Undefined)]
    ELSE LET left == {r \in rows : toLowerCase(r.name) # toLowerCase(name)}
         IN [rows |-> left,
             res |-> AdminResponse("DELETE", 200, Accepted(orderByName(left)),
                                   name, Undefined)]

dbDeleteCarrier(rows, name) ==
    IF ~\E r \in rows : r.name = name
    THEN [rows |-> rows,
          res |-> AdminResponse("DELETE", 404, Rejected("Carrier not found"),
                                name, Undefined)]
    ELSE LET left == {r \in rows : r.name # name}
         IN [rows |-> left,
             res |-> AdminResponse("DELETE", 200, Accepted(orderByName(left)),
                                   name, Undefined)]

(***************************************************************************)
(* splitIntoParcel of src/web/services/shipping.js: the bin-packing split  *)
(* of a list of items into parcels.                                        *)
(***************************************************************************)
\* the default of the maxWeight parameter, in kg
defaultMaxWeight == Frac(315, 10)

\* a comparator that sorts the lightest item first
compareWeightAscending(a, b) ==
    JsSub(JsMul(a.grams, a.quantity), JsMul(b.grams, b.quantity))

\* (a, b) => (b.grams * b.quantity) - (a.grams * a.quantity)
compareWeight(a, b) ==
    JsSub(JsMul(b.grams, b.quantity), JsMul(a.grams, a.quantity))

\* item goes behind every element that does not compare greater than it
RECURSIVE InsertByWeight(_, _)
InsertByWeight(sorted, item) ==
    IF sorted = <<>> THEN <<item>>
    ELSE IF JsGt(compareWeight(Head(sorted), item), Num(0))
         THEN <<item>> \o sorted
         ELSE <<Head(sorted)>> \o InsertByWeight(Tail(sorted), item)

RECURSIVE SortByWeightFrom(_, _)
SortByWeightFrom(done, rest) ==
    IF rest = <<>> THEN done
    ELSE SortByWeightFrom(InsertByWeight(done, Head(rest)), Tail(rest))

\* [...items].sort(..): a sorted copy, heaviest item first
sortedItems(items) == SortByWeightFrom(<<>>, items)

\* the items array of the caller after the call, had the sort been in place
itemsAfterSplitSorted(items) == sortedItems(items)

\* the items array of the caller after the call: the sort works on a copy, the
\* parcels take the items by reference and a split item as a copy
itemsAfterSplit(items) == items

EmptyParcel == [items |-> <<>>, weight |-> Num(0)]

\* a parcel count rounded down
itemParcelsNeededFloor(itemWeight, maxWeightGrams) ==
    MathCeilFloor(JsDiv(itemWeight, maxWeightGrams))

itemParcelsNeeded(itemWeight, maxWeightGrams) ==
    MathCeil(JsDiv(itemWeight, maxWeightGrams))

\* a parcel of a split item that keeps the item's quantity
splitParcelWhole(item) == [items |-> <<item>>, weight |-> item.grams]

\* { items: [{ ...item, quantity: 1 }], weight: item.grams }
splitParcel(item) ==
    [items |-> <<[item EXCEPT !.quantity = Num(1)]>>, weight |-> item.grams]

\* currentParcel.items.push(item); currentParcel.weight += itemWeight
pushItem(currentParcel, item, itemWeight) ==
    [items |-> Append(currentParcel.items, item),
     weight |-> JsAdd(currentParcel.weight, itemWeight)]

\* the loop over the sorted items and the push of the last parcel
RECURSIVE pack(_, _, _, _)
pack(rest, parcels, currentParcel, maxWeightGrams) ==
    IF rest = <<>>
    THEN IF Len(currentParcel.items) > 0
         THEN Append(parcels, currentParcel)
         ELSE parcels
    ELSE LET item == Head(rest)
             itemWeight == JsMul(item.grams, item.quantity)
         IN IF JsLe(JsAdd(currentParcel.weight, itemWeight), maxWeightGrams)
            THEN pack(Tail(rest), parcels,
                      pushItem(currentParcel, item, itemWeight), maxWeightGrams)
            ELSE LET closed == IF Len(currentParcel.items) > 0
                               THEN Append(parcels, currentParcel)
                               ELSE parcels
                     opened == IF Len(currentParcel.items) > 0
                               THEN EmptyParcel
                               ELSE currentParcel
                 IN IF JsGt(itemWeight, maxWeightGrams)
                    THEN LET needed == itemParcelsNeeded(itemWeight, maxWeightGrams)
                         IN pack(Tail(rest),
                                 closed \o [i \in 1..needed.n |-> splitParcel(item)],
                                 opened, maxWeightGrams)
                    ELSE pack(Tail(rest), closed,
                              pushItem(opened, item, itemWeight), maxWeightGrams)

splitIntoParcel(items, maxWeight) ==
    LET maxWeightGrams == JsMul(maxWeight, Num(1000))
    IN pack(sortedItems(items), <<>>, EmptyParcel, maxWeightGrams)

\* the request and the carrier array of the caller after
\* calculateShippingRates: reduce only reads the items, map builds a new array
\* and sort orders that new array
requestAfterRates(request) == request
carriersAfterRates(carrierList) == carrierList

(***************************************************************************)
(* The dev launcher, src/start-dev.js.  main() spawns cloudflared and      *)
(* listens to its stdout and stderr; checkForTunnelUrl looks for the       *)
(* tunnel URL in each chunk of output.  A chunk is a sequence of words; a  *)
(* word is the text around a host label: scheme, label, domain, and        *)
(* whether the label is made of the characters [a-z0-9-] only.             *)
(***************************************************************************)
\* the value of `let tunnelUrl = null`; no match of the pattern is this text
Null == "null"

Word(scheme, label, plain, domain) ==
    [scheme |-> scheme, label |-> label, plain |-> plain, domain |-> domain]

WordSamples ==
    { Word("https://", "quick-fox-1", TRUE, ".trycloudflare.com"),
      Word("https://", "slow-owl-2", TRUE, ".trycloudflare.com"),
      Word("https://", "Tunnel", FALSE, ".trycloudflare.com"),
      Word("http://", "localhost", TRUE, ":3000") }

OutputSamples == SeqsUpTo(WordSamples, MaxWords) \ {<<>>}

\* /https:\/\/[a-z0-9-]+\.trycloudflare\.com/ on one word
matchesPattern(word) ==
    /\ word.scheme = "https://"
    /\ word.plain
    /\ word.domain = ".trycloudflare.com"

\* output.match(...): match[0] is the text of the leftmost match; no match
\* is null
RECURSIVE match(_)
match(output) ==
    IF output = <<>> THEN Null
    ELSE IF matchesPattern(Head(output))
         THEN Head(output).scheme \o Head(output).label \o Head(output).domain
         ELSE match(Tail(output))

\* a line of .env is the text before its first "HOST=", if it has one, and
\* the text after it
Line(before, host, after) == [before |-> before, host |-> host, after |-> after]

EnvSamples ==
    { [exists |-> FALSE, lines |-> <<>>],
      [exists |-> TRUE, lines |-> <<Line("", FALSE, "")>>],
      [exists |-> TRUE, lines |-> <<Line("PORT=3000", FALSE, ""),
                                    Line("", TRUE, "https://old-url-0.trycloudflare.com")>>],
      [exists |-> TRUE, lines |-> <<Line("PG_", TRUE, "localhost")>>] }

TomlSamples ==
    { [exists |-> FALSE, application_url |-> <<>>, redirect_urls |-> <<>>],
      [exists |-> TRUE, application_url |-> <<>>, redirect_urls |-> <<>>],
      [exists |-> TRUE, application_url |-> <<"https://old-url-0.trycloudflare.com">>,
       redirect_urls |-> << <<"https://old-url-0.trycloudflare.com/auth/callback">> >>] }

\* updateAppToml: the first application_url line and the first redirect_urls
\* list, where the file has them, are replaced and the file is written
updateAppToml(l, tunnelUrl) ==
    IF ~l.toml.exists THEN l
    ELSE [l EXCEPT
            !.toml = [exists |-> TRUE,
                      application_url |->
                         IF l.toml.application_url = <<>> THEN <<>> ELSE <<tunnelUrl>>,
                      redirect_urls |->
                         IF l.toml.redirect_urls = <<>> THEN <<>>
                         ELSE << <<tunnelUrl \o "/auth/callback",
                                   tunnelUrl \o "/auth/shopify/callback",
                                   tunnelUrl \o "/api/auth/callback">> >>],
            !.written = Append(l.written, "shopify.app.toml")]

\* updateEnvFile: every "HOST=" and the rest of its line becomes
\* HOST=<tunnelUrl>; a file without "HOST=" gets the line appended
updateEnvFile(l, tunnelUrl) ==
    IF tunnelUrl = Null THEN l
    ELSE IF ~l.env.exists THEN l
    ELSE LET lines == l.env.lines
             includesHost == \E k \in 1..Len(lines) : lines[k].host
             replaced == [k \in 1..Len(lines) |->
                            IF lines[k].host
                            THEN Line(lines[k].before, TRUE, tunnelUrl)
                            ELSE lines[k]]
             envContent == IF includesHost THEN replaced
                           ELSE Append(lines, Line("", TRUE, tunnelUrl))
         IN updateAppToml([l EXCEPT !.env = [exists |-> TRUE, lines |-> envContent],
                                    !.written = Append(l.written, ".env")],
                          tunnelUrl)

\* spawn(npmCmd, ['run', 'dev'], {env: {..., HOST: tunnelUrl}})
spawnShopify(l) == [l EXCEPT !.shopify = Append(l.shopify, [HOST |-> l.tunnelUrl])]

\* a checkForTunnelUrl that does not look at tunnelUrl before it starts
checkForTunnelUrlEveryMatch(l, output) ==
    IF match(output) # Null
    THEN spawnShopify(updateEnvFile([l EXCEPT !.tunnelUrl = match(output)],
                                    match(output)))
    ELSE l

\* if (match && !tunnelUrl) { tunnelUrl = match[0]; updateEnvFile(tunnelUrl);
\* spawn(...) }
checkForTunnelUrl(l, output) ==
    IF match(output) # Null /\ l.tunnelUrl = Null
    THEN spawnShopify(updateEnvFile([l EXCEPT !.tunnelUrl = match(output)],
                                    match(output)))
    ELSE l

\* the launcher after main() has run: cloudflared spawned, no URL yet, no
\* dev server; `heard` records, per data event, the stream and what the
\* pattern found in the chunk
Launched(env, toml) ==
    [cloudflared |-> "running", tunnelUrl |-> Null, shopify |-> <<>>,
     env |-> env, toml |-> toml, written |-> <<>>, heard |-> <<>>,
     exited |-> <<>>]

\* the web application started without the launcher
NotLaunched == [cloudflared |-> "none"]

(***************************************************************************)
(* The state machine.                                                      *)
(***************************************************************************)
\* no direct caller: nothing held, nothing returned
NoArgs == [request |-> [rate |-> Undefined], carriers |-> <<>>]
NoCall == [fn |-> "none"]

DefaultCarriers ==
    <<[name |-> "DPD", price |-> Num(1000)], [name |-> "Post", price |-> Num(1200)]>>

\* src/web/index.js starts with the two carriers in its array; initializeDB
\* inserts the same two into an empty table
Init ==
    /\ store \in {"memory", "database"}
    /\ carriers = IF store = "memory" THEN DefaultCarriers ELSE <<>>
    /\ table = IF store = "database"
               THEN {DefaultCarriers[k] : k \in 1..Len(DefaultCarriers)}
               ELSE {}
    /\ response = NoResponse
    /\ args = NoArgs /\ out = NoCall /\ prev = NoCall
    /\ launcher = NotLaunched

\* one exchange at a time: a handler runs when the previous response has left
Idle == response = NoResponse

MemCarrierService ==
    /\ store = "memory" /\ Idle
    /\ \E request \in RateRequests, tickAt \in 0..MaxTickAt :
          response' = memCarrierService(request, carriers, tickAt)
    /\ UNCHANGED <<store, carriers, table, core, launcher>>

DbCarrierService ==
    /\ store = "database" /\ Idle
    /\ \E request \in RateRequests, dbOk \in BOOLEAN, tickAt \in 0..MaxTickAt :
          response' = dbCarrierService(request, table, dbOk, tickAt)
    /\ UNCHANGED <<store, carriers, table, core, launcher>>

RouteShipping ==
    /\ store = "database" /\ Idle
    /\ \E request \in RateRequests, dbOk \in BOOLEAN, tickAt \in 0..MaxTickAt :
          response' = routeShipping(request, table, dbOk, tickAt)
    /\ UNCHANGED <<store, carriers, table, core, launcher>>

MemPostCarrier ==
    /\ store = "memory" /\ Idle
    /\ \E name \in NameSamples \cup {""}, price \in PriceSamples :
          LET done == memPostCarrier(carriers, name, price)
          IN carriers' = done.list /\ response' = done.res
    /\ UNCHANGED <<store, table, core, launcher>>

MemPutCarrier ==
    /\ store = "memory" /\ Idle
    /\ \E name \in NameSamples, price \in PriceSamples :
          LET done == memPutCarrier(carriers, name, price)
          IN carriers' = done.list /\ response' = done.res
    /\ UNCHANGED <<store, table, core, launcher>>

MemDeleteCarrier ==
    /\ store = "memory" /\ Idle
    /\ \E name \in NameSamples :
          LET done == memDeleteCarrier(carriers, name)
          IN carriers' = done.list /\ response' = done.res
    /\ UNCHANGED <<store, table, core, launcher>>

DbPostCarrier ==
    /\ store = "database" /\ Idle
    /\ \E name \in NameSamples \cup {""}, price \in PriceSamples :
          LET done == dbPostCarrier(table, name, price)
          IN table' = done.rows /\ response' = done.res
    /\ UNCHANGED <<store, carriers, core, launcher>>

DbPutCarrier ==
    /\ store = "database" /\ Idle
    /\ \E name \in NameSamples, price \in PriceSamples :
          LET done == dbPutCarrier(table, name, price)
          IN table' = done.rows /\ response' = done.res
    /\ UNCHANGED <<store, carriers, core, launcher>>

DbDeleteCarrier ==
    /\ store = "database" /\ Idle
    /\ \E name \in NameSamples :
          LET done == dbDeleteCarrier(table, name)
          IN table' = done.rows /\ response' = done.res
    /\ UNCHANGED <<store, carriers, core, launcher>>

\* the response has been sent; the server waits for the next request
Deliver ==
    /\ ~Idle
    /\ response' = NoResponse
    /\ UNCHANGED <<store, carriers, table, core, launcher>>

Next ==
    \/ MemCarrierService
    \/ DbCarrierService
    \/ RouteShipping
    \/ MemPostCarrier
    \/ MemPutCarrier
    \/ MemDeleteCarrier
    \/ DbPostCarrier
    \/ DbPutCarrier
    \/ DbDeleteCarrier
    \/ Deliver

Spec == Init /\ [][Next]_vars

(***************************************************************************)
(* The admin API alone.                                                    *)
(***************************************************************************)
NextAdmin ==
    \/ MemPostCarrier
    \/ MemPutCarrier
    \/ MemDeleteCarrier
    \/ DbPostCarrier
    \/ DbPutCarrier
    \/ DbDeleteCarrier
    \/ Deliver

SpecAdmin == Init /\ [][NextAdmin]_vars

(***************************************************************************)
(* The rate endpoint alone, serving from carrier sets that the admin API   *)
(* can leave behind.                                                       *)
(***************************************************************************)
\* the array of src/web/index.js: as started, emptied, both carriers put to
\* one price, DPD deleted and posted again
CarrierListSamples ==
    { DefaultCarriers,
      <<>>,
      <<[name |-> "DPD", price |-> Num(1200)], [name |-> "Post", price |-> Num(1200)]>>,
      <<[name |-> "Post", price |-> Num(1200)], [name |-> "DPD", price |-> Num(1000)]>> }

\* the carriers table: as initialised, emptied, both carriers put to one
\* price, and with a third carrier "dpd" next to "DPD"
TableSamples ==
    { {[name |-> "DPD", price |-> Num(1000)], [name |-> "Post", price |-> Num(1200)]},
      {},
      {[name |-> "DPD", price |-> Num(1200)], [name |-> "Post", price |-> Num(1200)]},
      {[name |-> "DPD", price |-> Num(1000)], [name |-> "Post", price |-> Num(1200)],
       [name |-> "dpd", price |-> Num(1000)]} }

InitQuote ==
    /\ store \in {"memory", "database"}
    /\ carriers \in IF store = "memory" THEN CarrierListSamples ELSE {<<>>}
    /\ table \in IF store = "database" THEN TableSamples ELSE {{}}
    /\ response = NoResponse
    /\ args = NoArgs /\ out = NoCall /\ prev = NoCall
    /\ launcher = NotLaunched

NextQuote ==
    \/ MemCarrierService
    \/ DbCarrierService
    \/ RouteShipping
    \/ Deliver

SpecQuote == InitQuote /\ [][NextQuote]_vars

(***************************************************************************)
(* Vocabulary of the properties.                                           *)
(***************************************************************************)
IsRate == response.handler \in RateHandlers
Ok200 == IsRate /\ response.status = 200
Weighed == IsRate /\ response.log.weighed

IsInteger(x) == x.t = "number" /\ ~x.nan /\ x.d = 1

\* the request has rate.items and every grams and quantity in it is a number
NumericRequest(request) ==
    /\ request.rate # Undefined
    /\ \A k \in 1..Len(request.rate.items) :
          /\ IsInteger(request.rate.items[k].grams)
          /\ IsInteger(request.rate.items[k].quantity)

\* an item with a negative or malformed weight or quantity
BadItem(item) ==
    \/ ~IsInteger(item.grams) \/ ~IsInteger(item.quantity)
    \/ item.grams.n < 0 \/ item.quantity.n < 0

\* the sum over the line items of grams * quantity, taken in no particular order
RECURSIVE SumGrams(_, _)
SumGrams(items, S) ==
    IF S = {} THEN 0
    ELSE LET k == CHOOSE k \in S : TRUE
         IN items[k].grams.n * items[k].quantity.n + SumGrams(items, S \ {k})

OrderWeight(request) == SumGrams(request.rate.items, DOMAIN request.rate.items)

Reverse(seq) == [k \in 1..Len(seq) |-> seq[Len(seq) + 1 - k]]

Bijections(n) == {f \in [1..n -> 1..n] : \A a, b \in 1..n : f[a] = f[b] => a = b}

ThirtyKg == <<Item(Num(5000), Num(2)), Item(Num(20000), Num(1))>>
FortyKg == <<Item(Num(20000), Num(1)), Item(Num(20000), Num(1))>>

(***************************************************************************)
(* The service module called directly: src/web/services/shipping.js        *)
(* exports calculateShippingRates and splitIntoParcel.  A caller holds a   *)
(* request and a carrier array (args), calls one of the two functions and  *)
(* keeps what it returned (out).                                           *)
(***************************************************************************)
CoreItemSamples ==
    { Item(Num(5000), Num(2)),      \* 10 kg
      Item(Num(16000), Num(1)),     \* 16 kg
      Item(Num(20000), Num(1)),     \* 20 kg
      Item(Num(0), Num(1)),         \* weightless
      Item(Num(31500), Num(1)),     \* exactly the default cap
      Item(Num(31501), Num(1)),     \* one gram more
      Item(Num(50000), Num(1)),     \* one unit of 50 kg
      Item(Num(5000), Num(10)) }    \* ten units of 5 kg

\* maxWeight: the default and a smaller cap, in kg
CapSamples == {defaultMaxWeight, Num(20)}

CoreCarrierSamples ==
    { DefaultCarriers,
      <<[name |-> "Post", price |-> Num(1200)], [name |-> "DPD", price |-> Num(1000)]>> }

CoreArgs(n, lists) ==
    {[request |-> [rate |-> [items |-> its, currency |-> ""]], carriers |-> list] :
        its \in SeqsUpTo(CoreItemSamples, n), list \in lists}

InitCore ==
    /\ store = "memory" /\ carriers = DefaultCarriers /\ table = {}
    /\ response = NoResponse
    /\ args \in CoreArgs(MaxCoreItems, CoreCarrierSamples)
    /\ out = NoCall /\ prev = NoCall
    /\ launcher = NotLaunched

CallRates ==
    /\ out = NoCall
    /\ \E tickAt \in 0..MaxTickAt :
          LET calc == calculateShippingRates(args.request, args.carriers, tickAt)
          IN out' = [fn |-> "calculateShippingRates",
                     request |-> args.request, carriers |-> args.carriers,
                     threw |-> calc.threw, rates |-> calc.rates, log |-> calc.log]
    /\ args' = [request |-> requestAfterRates(args.request),
                carriers |-> carriersAfterRates(args.carriers)]
    /\ UNCHANGED <<web, launcher, prev>>

CallSplit ==
    /\ out = NoCall
    /\ \E maxWeight \in CapSamples :
          out' = [fn |-> "splitIntoParcel",
                  items |-> args.request.rate.items, maxWeight |-> maxWeight,
                  parcels |-> splitIntoParcel(args.request.rate.items, maxWeight)]
    /\ args' = [args EXCEPT !.request.rate.items = itemsAfterSplit(@)]
    /\ UNCHANGED <<web, launcher, prev>>

\* the caller lets go of the result; it may call again with what it holds
Drop ==
    /\ out # NoCall
    /\ out' = NoCall
    /\ UNCHANGED <<web, launcher, args, prev>>

NextCore == CallRates \/ CallSplit \/ Drop

SpecCore == InitCore /\ [][NextCore]_vars

\* calls of calculateShippingRates in a row: the caller notes the weight of
\* a request and the parcel count logged for it, lets go of the request and
\* takes up another one
InitPair ==
    /\ store = "memory" /\ carriers = DefaultCarriers /\ table = {}
    /\ response = NoResponse
    /\ args \in CoreArgs(MaxItems, {DefaultCarriers})
    /\ out = NoCall /\ prev = NoCall
    /\ launcher = NotLaunched

Remember ==
    /\ out # NoCall /\ out.fn = "calculateShippingRates" /\ ~out.threw
    /\ prev' = [fn |-> out.fn, weight |-> OrderWeight(out.request),
                parcels |-> out.log.parcels]
    /\ out' = NoCall
    /\ args' = NoArgs
    /\ UNCHANGED <<web, launcher>>

TakeUp ==
    /\ args = NoArgs /\ out = NoCall
    /\ args' \in CoreArgs(MaxItems, {DefaultCarriers})
    /\ UNCHANGED <<web, launcher, out, prev>>

NextPair == CallRates \/ Remember \/ TakeUp

SpecPair == InitPair /\ [][NextPair]_vars

(***************************************************************************)
(* The three implementations of the rate endpoint side by side: the same   *)
(* request is put to the in-memory handler, to the inline handler of the   *)
(* database revision and to the route module, over the same carriers (the  *)
(* array holds them in the order the table query returns them) and with    *)
(* the same clock.                                                         *)
(***************************************************************************)
\* carrier sets that both revisions can hold
SharedTableSamples ==
    { {[name |-> "DPD", price |-> Num(1000)], [name |-> "Post", price |-> Num(1200)]},
      {[name |-> "DPD", price |-> Num(1200)], [name |-> "Post", price |-> Num(1200)]},
      {[name |-> "DPD", price |-> Num(0)], [name |-> "Post", price |-> Num(1200)]},
      {[name |-> "Post", price |-> Num(1200)]} }

InitSideBySide ==
    /\ store = "database"
    /\ table \in SharedTableSamples
    /\ carriers = orderByName(table)
    /\ response = NoResponse
    /\ args = NoArgs /\ out = NoCall /\ prev = NoCall
    /\ launcher = NotLaunched

AskAll ==
    /\ out = NoCall
    /\ \E request \in RateRequests, tickAt \in 0..MaxTickAt :
          out' = [fn |-> "POST /carrier-service",
                  request |-> request, tickAt |-> tickAt,
                  memory |-> memCarrierService(request, carriers, tickAt),
                  database |-> dbCarrierService(request, table, TRUE, tickAt),
                  route |-> routeShipping(request, table, TRUE, tickAt)]
    /\ UNCHANGED <<web, launcher, args, prev>>

NextSideBySide == AskAll \/ Drop

SpecSideBySide == InitSideBySide /\ [][NextSideBySide]_vars

(***************************************************************************)
(* The rate handlers among admin requests.  The handlers of the database   *)
(* revision are async: they await getCarriers(), and until they go on,     *)
(* other requests are served; what they go on with is their local const    *)
(* `carriers`.  The rest of each handler, and the whole in-memory handler, *)
(* has no await and runs in one piece.  args is the handler that waits,    *)
(* prev is the table as the query saw it.                                  *)
(***************************************************************************)
SnapshotRequests ==
    { [rate |-> [items |-> ThirtyKg, currency |-> ""]],
      [rate |-> [items |-> FortyKg, currency |-> ""]] }

\* a handler that queries the table again when it goes on
heldRowsReread(held, rows) == rows

\* the rows the handler goes on with: those of its const `carriers`
heldRows(held, rows) == {held[k] : k \in 1..Len(held)}

InitInterleaved ==
    /\ Init
    /\ store = "database"

\* const carriers = await getCarriers()
AwaitCarriers ==
    /\ store = "database"
    /\ args = NoArgs
    /\ \E handler \in {"database", "route"}, request \in SnapshotRequests :
          args' = [handler |-> handler, request |-> request,
                   carriers |-> getCarriers(table, TRUE).rows]
    /\ prev' = [fn |-> "getCarriers", table |-> table]
    /\ UNCHANGED <<web, launcher, out>>

\* the handler goes on after the await, up to its response
GoOn ==
    /\ args # NoArgs /\ Idle
    /\ \E tickAt \in 0..MaxTickAt :
          response' =
             IF args.handler = "route"
             THEN routeShipping(args.request, heldRows(args.carriers, table), TRUE, tickAt)
             ELSE dbCarrierService(args.request, heldRows(args.carriers, table), TRUE, tickAt)
    /\ args' = NoArgs
    /\ UNCHANGED <<store, carriers, table, out, prev, launcher>>

NextInterleaved ==
    \/ AwaitCarriers
    \/ GoOn
    \/ DbPostCarrier
    \/ DbPutCarrier
    \/ DbDeleteCarrier
    \/ Deliver

SpecInterleaved == InitInterleaved /\ [][NextInterleaved]_vars

(***************************************************************************)
(* The launcher as a process: the callbacks main() registers, each run to  *)
(* its end when its event is emitted.  No event is handled after           *)
(* process.exit, and cloudflared emits no data after its 'close'.          *)
(***************************************************************************)
InitLauncher ==
    /\ store = "memory" /\ carriers = DefaultCarriers /\ table = {}
    /\ response = NoResponse
    /\ args = NoArgs /\ out = NoCall /\ prev = NoCall
    /\ \E env \in EnvSamples, toml \in TomlSamples : launcher = Launched(env, toml)

\* process.exit(code), with the last line the callback has logged
exit(code, logged) == [code |-> code, logged |-> logged]

Running == launcher # NotLaunched /\ launcher.exited = <<>>

Hears == Running /\ launcher.cloudflared = "running" /\ Len(launcher.heard) < MaxOutputs

heardOn(l, stream, output) ==
    [l EXCEPT !.heard = Append(l.heard, [stream |-> stream, url |-> match(output)])]

\* cloudflared.stdout.on('data', ...)
StdoutData ==
    /\ Hears
    /\ \E output \in OutputSamples :
          launcher' = checkForTunnelUrl(heardOn(launcher, "stdout", output), output)
    /\ UNCHANGED <<web, core>>

\* cloudflared.stderr.on('data', ...)
StderrData ==
    /\ Hears
    /\ \E output \in OutputSamples :
          launcher' = checkForTunnelUrl(heardOn(launcher, "stderr", output), output)
    /\ UNCHANGED <<web, core>>

\* shopify.on('close', ...): cloudflared.kill(); process.exit(code)
ShopifyClose ==
    /\ Running /\ launcher.shopify # <<>>
    /\ \E code \in {0, 1} :
          launcher' = [launcher EXCEPT
                         !.cloudflared = "killed",
                         !.exited = <<exit(code, "Development server exited with code")>>]
    /\ UNCHANGED <<web, core>>

\* shopify.on('error', ...): cloudflared.kill(); process.exit(1)
ShopifyError ==
    /\ Running /\ launcher.shopify # <<>>
    /\ launcher' = [launcher EXCEPT
                      !.cloudflared = "killed",
                      !.exited = <<exit(1, "Failed to start development server:")>>]
    /\ UNCHANGED <<web, core>>

\* cloudflared.on('close', ...): exit 1 if no tunnel URL was detected
CloudflaredClose ==
    /\ Running /\ launcher.cloudflared = "running"
    /\ launcher' = [launcher EXCEPT
                      !.cloudflared = "closed",
                      !.exited = IF launcher.tunnelUrl = Null
                                 THEN <<exit(1, "Failed to start Cloudflare tunnel")>>
                                 ELSE <<>>]
    /\ UNCHANGED <<web, core>>

\* process.on('SIGINT', ...): cloudflared.kill(); process.exit()
Sigint ==
    /\ Running
    /\ launcher' = [launcher EXCEPT
                      !.cloudflared = IF launcher.cloudflared = "running"
                                      THEN "killed" ELSE launcher.cloudflared,
                      !.exited = <<exit(0, "Shutting down...")>>]
    /\ UNCHANGED <<web, core>>

NextLauncher ==
    \/ StdoutData
    \/ StderrData
    \/ ShopifyClose
    \/ ShopifyError
    \/ CloudflaredClose
    \/ Sigint

SpecLauncher == InitLauncher /\ [][NextLauncher]_vars

(***************************************************************************)
(* C1.  Under the uniform-ceiling policy a request whose total weight is 0 *)
(* grams (every item weighs 0, or there is no item) is priced as exactly   *)
(* one parcel: the parcel count is 1 and every quote's total_price is its  *)
(* carrier's per-parcel price.                                             *)
(***************************************************************************)
C1_ZeroWeightOneParcel ==
    ( /\ Weighed
      /\ NumericRequest(response.request)
      /\ \A k \in 1..Len(response.request.rate.items) :
            /\ response.request.rate.items[k].grams.n = 0
            /\ response.request.rate.items[k].quantity.n > 0 )
    => /\ response.log.parcels = Num(1)
       /\ \A k \in 1..Len(response.rates) :
             \E j \in 1..Len(response.carriers) :
                /\ response.rates[k].service_code = toLowerCase(response.carriers[j].name)
                /\ response.rates[k].total_price = response.carriers[j].price

(***************************************************************************)
(* C2.  For a request whose item fields are numbers and a non-empty        *)
(* carrier list, a 200 response of the rate endpoint holds exactly one     *)
(* rate, and its total_price is at most price * parcels of every carrier   *)
(* of the list: it is the cheapest quote.                                  *)
(***************************************************************************)
C2_CheapestReturned ==
    (Ok200 /\ Len(response.carriers) > 0 /\ NumericRequest(response.request))
    => /\ Len(response.body.rates) = 1
       /\ ~response.body.rates[1].null
       /\ ~response.body.rates[1].total_price.null
       /\ \A k \in 1..Len(response.carriers) :
             response.body.rates[1].total_price.n
                <= response.carriers[k].price.n * response.log.parcels.n

\* 30 kg with DPD 1000 and Post 1200, in an order the sort has to change:
\* the rate returned is DPD at 1000
C2_Witness ==
    /\ Ok200
    /\ response.request.rate # Undefined
    /\ response.request.rate.items = ThirtyKg
    /\ response.carriers = <<[name |-> "Post", price |-> Num(1200)],
                             [name |-> "DPD", price |-> Num(1000)]>>
    /\ Len(response.body.rates) = 1
    /\ response.body.rates[1].service_code = "dpd"
    /\ response.body.rates[1].total_price = [null |-> FALSE, n |-> 1000]

(***************************************************************************)
(* C3.  Every 200 response of the rate endpoint, for any request body and  *)
(* any carrier list the admin operations can produce, carries a rates list *)
(* that is empty or holds exactly one rate object whose total_price is a   *)
(* non-negative integer: never a null entry, never a negative or           *)
(* non-numeric price.                                                      *)
(***************************************************************************)
C3_No200WithMalformedRates ==
    Ok200 =>
       \/ response.body.rates = <<>>
       \/ /\ Len(response.body.rates) = 1
          /\ ~response.body.rates[1].null
          /\ ~response.body.rates[1].total_price.null
          /\ response.body.rates[1].total_price.n >= 0

(***************************************************************************)
(* C4.  When the carrier list is empty, every variant of the rate endpoint *)
(* answers a request that has rate.items with HTTP 200 and rates equal to  *)
(* the empty list.                                                         *)
(***************************************************************************)
C4_EmptyCarriersEmptyRates ==
    ( /\ IsRate
      /\ response.fetched
      /\ response.carriers = <<>>
      /\ response.request.rate # Undefined )
    => /\ response.status = 200
       /\ response.body.rates = <<>>

(***************************************************************************)
(* C5.  A rate request with an item whose weight or quantity is negative   *)
(* or malformed is rejected before any quote is computed: the answer is a  *)
(* 4xx client error and no rates are built.                                *)
(***************************************************************************)
C5_BadItemRejected ==
    ( /\ IsRate
      /\ response.fetched
      /\ response.request.rate # Undefined
      /\ \E k \in 1..Len(response.request.rate.items) :
            BadItem(response.request.rate.items[k]) )
    => /\ response.status \in 400..499
       /\ response.rates = <<>>

(***************************************************************************)
(* C6.  For a request of positive total weight W grams the parcel count is *)
(* ceil(W / 31500): the smallest integer p with p * 31500 >= W.            *)
(***************************************************************************)
C6_UniformCeiling ==
    ( /\ Weighed
      /\ NumericRequest(response.request)
      /\ OrderWeight(response.request) > 0 )
    => LET p == response.log.parcels
           W == OrderWeight(response.request)
       IN /\ IsInteger(p)
          /\ p.n * 31500 >= W
          /\ (p.n - 1) * 31500 < W

\* 40 kg gives 2 parcels
C6_Witness ==
    /\ Weighed
    /\ NumericRequest(response.request)
    /\ OrderWeight(response.request) = 40000
    /\ response.log.parcels = Num(2)

(***************************************************************************)
(* C7.  The total weight the parcel count is computed from is the sum over *)
(* the line items of grams * quantity, whatever the order of the items.    *)
(***************************************************************************)
C7_TotalWeightIsSum ==
    (Weighed /\ NumericRequest(response.request))
    => LET kg == response.log.totalWeightKg
           items == response.request.rate.items
       IN /\ ~kg.nan
          /\ kg.n * 1000 = OrderWeight(response.request) * kg.d
          /\ JsDiv(reduce(Reverse(items), Num(0)), Num(1000)) = kg

\* two items of different weight and quantity: 2 * 5 kg + 20 kg = 30 kg
C7_Witness ==
    /\ Weighed
    /\ response.request.rate.items = ThirtyKg
    /\ response.log.totalWeightKg = Frac(30000, 1000)

(***************************************************************************)
(* C8.  Within one request every carrier's quote has total_price = the     *)
(* carrier's price * p for one and the same parcel count p, the one        *)
(* computed for the request: the quotes are, one for one, the carriers of  *)
(* the list priced with p.                                                 *)
(***************************************************************************)
C8_OneParcelCount ==
    (Weighed /\ NumericRequest(response.request))
    => LET p == response.log.parcels
           n == Len(response.carriers)
       IN /\ IsInteger(p)
          /\ Len(response.rates) = n
          /\ \E f \in Bijections(n) :
                \A k \in 1..n :
                   /\ response.rates[k].service_code
                         = toLowerCase(response.carriers[f[k]].name)
                   /\ response.rates[k].total_price
                         = Num(response.carriers[f[k]].price.n * p.n)

\* 40 kg with DPD 1000 and Post 1200: 2000 and 2400
C8_Witness ==
    /\ Weighed
    /\ response.request.rate.items = FortyKg
    /\ Len(response.rates) = 2
    /\ response.rates[1].service_code = "dpd"
    /\ response.rates[1].total_price = Num(2000)
    /\ response.rates[2].service_code = "post"
    /\ response.rates[2].total_price = Num(2400)

(***************************************************************************)
(* C9.  The list of rates a handler has after the sort (the list           *)
(* calculateShippingRates returns) is non-decreasing in total_price: each  *)
(* quote's total_price is <= that of the next one.                         *)
(***************************************************************************)
C9_SortedByPrice ==
    (Weighed /\ NumericRequest(response.request))
    => \A k \in 1..(Len(response.rates) - 1) :
          JsLe(response.rates[k].total_price, response.rates[k + 1].total_price)

\* calculateShippingRates got the dearer carrier first and returned it last
C9_Witness ==
    /\ Weighed
    /\ response.handler = "route"
    /\ NumericRequest(response.request)
    /\ Len(response.carriers) = 2
    /\ response.carriers[1].price = Num(1200)
    /\ response.carriers[2].price = Num(1000)
    /\ response.log.parcels = Num(2)
    /\ response.rates[1].total_price = Num(2000)
    /\ response.rates[2].total_price = Num(2400)

\* "<name> (<p> parcel[s])"
Label(name, p) ==
    name \o " (" \o ToString(p) \o " parcel" \o (IF p > 1 THEN "s" ELSE "") \o ")"

\* code and label, in list order, of the carriers that p parcels cost `price`
RECURSIVE CodesAt(_, _, _)
CodesAt(list, p, price) ==
    IF list = <<>> THEN <<>>
    ELSE (IF Head(list).price.n * p = price
          THEN <<[code |-> toLowerCase(Head(list).name),
                  label |-> Label(Head(list).name, p)]>>
          ELSE <<>>)
         \o CodesAt(Tail(list), p, price)

\* code and label, in order, of the quotes whose total_price is `price`
RECURSIVE CodesOf(_, _)
CodesOf(rates, price) ==
    IF rates = <<>> THEN <<>>
    ELSE (IF Head(rates).total_price = Num(price)
          THEN <<[code |-> Head(rates).service_code,
                  label |-> Head(rates).service_name]>>
          ELSE <<>>)
         \o CodesOf(Tail(rates), price)

(***************************************************************************)
(* C10.  Quotes of equal total_price keep the order their carriers have in *)
(* the carrier list, so of several carriers that tie for cheapest the      *)
(* endpoint returns the one that comes first in the list.                  *)
(***************************************************************************)
C10_TiesKeepListOrder ==
    (Weighed /\ NumericRequest(response.request) /\ Len(response.carriers) > 0)
    => LET p == response.log.parcels.n
           prices == {response.carriers[k].price.n * p : k \in 1..Len(response.carriers)}
           cheapest == CHOOSE t \in prices : \A u \in prices : t <= u
       IN /\ \A t \in prices :
                CodesOf(response.rates, t) = CodesAt(response.carriers, p, t)
          /\ response.status = 200
          /\ Len(response.body.rates) = 1
          /\ ~response.body.rates[1].null
          /\ response.body.rates[1].service_code
                = CodesAt(response.carriers, p, cheapest)[1].code
          /\ response.body.rates[1].service_name
                = CodesAt(response.carriers, p, cheapest)[1].label

\* two carriers tie for cheapest behind a dearer one, and the first of the
\* two in the list is the one returned
C10_Witness ==
    /\ Ok200 /\ Weighed
    /\ Len(response.carriers) = 3
    /\ response.carriers[1].price = Num(1200)
    /\ response.carriers[2].price = Num(1000)
    /\ response.carriers[3].price = Num(1000)
    /\ response.log.parcels = Num(1)
    /\ response.body.rates[1].service_name = Label(response.carriers[2].name, 1)
    /\ response.rates[2].service_name = Label(response.carriers[3].name, 1)

\* the lower-case spelling of a carrier name, letter by letter
Lowered(name) ==
    CASE name = "DPD" -> "dpd"
      [] name = "Post" -> "post"
      [] name = "dpd" -> "dpd"

(***************************************************************************)
(* C11.  The rate computation returns exactly one quote per carrier of the *)
(* list it was given: the quote list has the length of the carrier list,   *)
(* and the service_codes of the quotes are, as a multiset, the lower-cased *)
(* carrier names (a one-to-one matching of quotes and carriers exists); no *)
(* carrier is dropped and none is quoted twice.                            *)
(***************************************************************************)
C11_OneQuotePerCarrier ==
    Weighed
    => /\ Len(response.rates) = Len(response.carriers)
       /\ \E f \in Bijections(Len(response.carriers)) :
             \A k \in 1..Len(response.rates) :
                response.rates[k].service_code = Lowered(response.carriers[f[k]].name)

\* the route module quoted three carriers, two of them under the code "dpd",
\* and two of them at the same price
C11_Witness ==
    /\ Weighed /\ response.handler = "route"
    /\ Len(response.rates) = 3
    /\ Cardinality({k \in 1..3 : response.rates[k].service_code = "dpd"}) = 2
    /\ \E a, b \in 1..3 :
          a # b /\ response.rates[a].total_price = response.rates[b].total_price

(***************************************************************************)
(* C13.  When the carrier query of a rate request fails, the endpoint      *)
(* answers with HTTP 500 and the error body, never with 200, and the query *)
(* is not issued a second time.                                            *)
(***************************************************************************)
C13_FetchFailureIs500 ==
    (IsRate /\ response.queries # <<>> /\ ~response.queries[1])
    => /\ response.status = 500
       /\ response.body = ErrorBody
       /\ response.sent = <<500>>
       /\ Len(response.queries) = 1

\* the route module could not read a table that holds carriers
C13_Witness ==
    /\ response.handler = "route"
    /\ response.queries = <<FALSE>>
    /\ response.status = 500
    /\ table # {}
    /\ response.request.rate # Undefined

(***************************************************************************)
(* C14.  Every rate request ends in exactly one outcome: the handler sends *)
(* one response and no second one, and that response is either a 200 whose *)
(* rates come from the quote list built from all the carriers read (the    *)
(* list has one quote per carrier, and the body holds its first quote), or *)
(* the 500 error body.  A 200 built from part of the carrier list does not *)
(* occur.                                                                  *)
(***************************************************************************)
C14_ExactlyOneOutcome ==
    IsRate
    => /\ Len(response.sent) = 1
       /\ response.sent[1] = response.status
       /\ \/ /\ response.status = 200
             /\ response.fetched
             /\ Len(response.rates) = Len(response.carriers)
             /\ response.rates # <<>>
                   => response.body.rates = <<JsonRate(response.rates[1])>>
             /\ (response.rates = <<>> /\ response.handler # "memory")
                   => response.body.rates = <<>>
          \/ /\ response.status = 500
             /\ response.body = ErrorBody

\* the route module answered 200 once, from the quotes of both carriers
C14_Witness ==
    /\ response.handler = "route"
    /\ response.status = 200
    /\ Len(response.sent) = 1
    /\ Len(response.carriers) = 2
    /\ Len(response.rates) = 2
    /\ Len(response.body.rates) = 1

(***************************************************************************)
(* C16.  Every quote's delivery window is [now + 1 day, now + 5 days] for  *)
(* one instant `now` of the request: min_delivery_date and                 *)
(* max_delivery_date are exactly 4 days apart, and all the quotes of one   *)
(* response carry the same window, whether or not the clock advances while *)
(* the quotes are built.                                                   *)
(***************************************************************************)
C16_OneDeliveryWindow ==
    Weighed
    => \A k \in 1..Len(response.rates) :
          /\ response.rates[k].max_delivery_date.iso
               - response.rates[k].min_delivery_date.iso = 4 * DayMs
          /\ \A j \in 1..Len(response.rates) :
                /\ response.rates[j].min_delivery_date = response.rates[k].min_delivery_date
                /\ response.rates[j].max_delivery_date = response.rates[k].max_delivery_date

\* the service name the parcel count the handler logged calls for
NameFor(name, parcels) ==
    IF parcels.nan THEN name \o " (NaN parcel)" ELSE Label(name, parcels.n)

(***************************************************************************)
(* C17.  Every quote carries the lower-cased name of its carrier as        *)
(* service_code and "<name> (<p> parcel)" as service_name, p being the     *)
(* parcel count of the request, with a trailing "s" after "parcel" exactly *)
(* when p > 1.                                                             *)
(***************************************************************************)
C17_CodeAndName ==
    (Weighed /\ Len(response.rates) = Len(response.carriers))
    => \E f \in Bijections(Len(response.carriers)) :
          \A k \in 1..Len(response.rates) :
             /\ response.rates[k].service_code = Lowered(response.carriers[f[k]].name)
             /\ response.rates[k].service_name
                  = NameFor(response.carriers[f[k]].name, response.log.parcels)

\* the route module named a one-parcel quote in the singular
C17_Witness ==
    /\ Weighed /\ response.handler = "route"
    /\ response.log.parcels = Num(1)
    /\ \E k \in 1..Len(response.rates) :
          /\ response.rates[k].service_name = "Post (1 parcel)"
          /\ response.rates[k].service_code = "post"

Split == out # NoCall /\ out.fn = "splitIntoParcel"
Rated == out # NoCall /\ out.fn = "calculateShippingRates"

CeilDiv(a, b) == -((-a) \div b)

\* the cap of a call in grams, as a fraction n / d
CapGrams(maxWeight) == [n |-> maxWeight.n * 1000, d |-> maxWeight.d]

ItemGrams(item) == item.grams.n * item.quantity.n

(***************************************************************************)
(* C19.  For every item list with non-negative weights, splitIntoParcel    *)
(* returns at least ceil(totalWeight / cap) parcels, totalWeight being the *)
(* sum of grams * quantity over the items.                                 *)
(***************************************************************************)
C19_AtLeastCeiling ==
    Split
    => Len(out.parcels)
         >= CeilDiv(SumGrams(out.items, DOMAIN out.items) * CapGrams(out.maxWeight).d,
                    CapGrams(out.maxWeight).n)

\* three items of 16 kg take three parcels under the 31.5 kg cap, where the
\* ceiling of 48 / 31.5 is 2
C19_Witness ==
    /\ Split
    /\ out.maxWeight = defaultMaxWeight
    /\ out.items = <<Item(Num(16000), Num(1)), Item(Num(16000), Num(1)),
                     Item(Num(16000), Num(1))>>
    /\ Len(out.parcels) = 3

Oversized(item, maxWeight) ==
    ItemGrams(item) * CapGrams(maxWeight).d > CapGrams(maxWeight).n

(***************************************************************************)
(* C20.  In splitIntoParcel an item whose weight grams * quantity exceeds  *)
(* the cap becomes exactly ceil(itemWeight / cap) parcels, each holding    *)
(* that one item with quantity 1 (an item of 50 kg under the 31.5 kg cap   *)
(* becomes 2 parcels), and it shares no parcel with another item.  (No     *)
(* sampled item equals another sampled item's single unit, so the parcels  *)
(* of an item can be told by their content.)                               *)
(***************************************************************************)
C20_OversizedItemSplit ==
    Split
    => \A k \in 1..Len(out.items) :
          Oversized(out.items[k], out.maxWeight)
          => LET item == out.items[k]
                 unit == [item EXCEPT !.quantity = Num(1)]
                 copies == Cardinality({j \in 1..Len(out.items) : out.items[j] = item})
                 own == {j \in 1..Len(out.parcels) : out.parcels[j].items = <<unit>>}
             IN /\ Cardinality(own)
                     = copies * CeilDiv(ItemGrams(item) * CapGrams(out.maxWeight).d,
                                        CapGrams(out.maxWeight).n)
                /\ \A j \in 1..Len(out.parcels) :
                      (\E m \in 1..Len(out.parcels[j].items) :
                          out.parcels[j].items[m] \in {item, unit})
                      => out.parcels[j].items = <<unit>>

\* a 50 kg item, given after two lighter items, became two parcels of its own
C20_Witness ==
    /\ Split
    /\ out.maxWeight = defaultMaxWeight
    /\ out.items = <<Item(Num(5000), Num(2)), Item(Num(20000), Num(1)),
                     Item(Num(50000), Num(1))>>
    /\ Len(out.parcels) = 3
    /\ out.parcels[1].items = <<Item(Num(50000), Num(1))>>
    /\ out.parcels[2].items = <<Item(Num(50000), Num(1))>>
    /\ Len(out.parcels[3].items) = 2

(***************************************************************************)
(* C12.  The parcel count is monotone in the total weight: of two requests *)
(* with non-negative total weights W1 <= W2, the one weighing W1 is given  *)
(* no more parcels than the one weighing W2.                               *)
(***************************************************************************)
C12_ParcelsMonotone ==
    (prev # NoCall /\ Rated /\ ~out.threw)
    => LET W == OrderWeight(out.request)
       IN /\ ~prev.parcels.nan /\ ~out.log.parcels.nan
          /\ prev.weight <= W => prev.parcels.n <= out.log.parcels.n
          /\ W <= prev.weight => out.log.parcels.n <= prev.parcels.n

\* a request of 31.5 kg was given one parcel; the next one, a gram heavier, two
C12_Witness ==
    /\ prev # NoCall /\ Rated /\ ~out.threw
    /\ prev.weight = 31500 /\ prev.parcels = Num(1)
    /\ OrderWeight(out.request) = 31501 /\ out.log.parcels = Num(2)

\* the sum of grams * quantity over the items a parcel lists
ParcelGrams(parcel) == SumGrams(parcel.items, DOMAIN parcel.items)

(***************************************************************************)
(* C21.  Every parcel returned by splitIntoParcel is weight-bounded: its   *)
(* recorded weight, and the sum of grams * quantity of the items it lists, *)
(* is at most the cap of maxWeight * 1000 grams, for every item list,      *)
(* lists with oversized items included.                                    *)
(***************************************************************************)
C21_ParcelsWeightBounded ==
    Split
    => \A j \in 1..Len(out.parcels) :
          /\ out.parcels[j].weight.n * CapGrams(out.maxWeight).d
                <= CapGrams(out.maxWeight).n
          /\ ParcelGrams(out.parcels[j]) * CapGrams(out.maxWeight).d
                <= CapGrams(out.maxWeight).n

RECURSIVE SumWeights(_, _)
SumWeights(parcels, S) ==
    IF S = {} THEN 0
    ELSE LET j == CHOOSE j \in S : TRUE
         IN parcels[j].weight.n + SumWeights(parcels, S \ {j})

RECURSIVE SumUnits(_, _)
SumUnits(items, S) ==
    IF S = {} THEN 0
    ELSE LET k == CHOOSE k \in S : TRUE
         IN items[k].quantity.n + SumUnits(items, S \ {k})

RECURSIVE SumParcelUnits(_, _)
SumParcelUnits(parcels, S) ==
    IF S = {} THEN 0
    ELSE LET j == CHOOSE j \in S : TRUE
         IN SumUnits(parcels[j].items, DOMAIN parcels[j].items)
              + SumParcelUnits(parcels, S \ {j})

(***************************************************************************)
(* C26.  splitIntoParcel conserves the contents of the order: the weights  *)
(* of the returned parcels add up to the sum of grams * quantity over the  *)
(* input items, and the quantities listed in the parcels add up to the sum *)
(* of the input quantities, also when an item is oversized and split.      *)
(***************************************************************************)
C26_ContentsConserved ==
    Split
    => /\ SumWeights(out.parcels, DOMAIN out.parcels)
            = SumGrams(out.items, DOMAIN out.items)
       /\ SumParcelUnits(out.parcels, DOMAIN out.parcels)
            = SumUnits(out.items, DOMAIN out.items)

\* a parcel made by the split of an oversized item of the call
IsSplitParcel(parcel) ==
    \E k \in 1..Len(out.items) :
       /\ Oversized(out.items[k], out.maxWeight)
       /\ parcel.items = <<[out.items[k] EXCEPT !.quantity = Num(1)]>>

IsPackedParcel(parcel) == ~IsSplitParcel(parcel)

FitsCap(item) == ~Oversized(item, out.maxWeight)

\* the items of the parcels, parcel after parcel
RECURSIVE Flatten(_)
Flatten(parcels) ==
    IF parcels = <<>> THEN <<>> ELSE Head(parcels).items \o Flatten(Tail(parcels))

(***************************************************************************)
(* C25.  splitIntoParcel is greedy next-fit on the items in descending     *)
(* order of grams * quantity.  The parcels of the oversized items come     *)
(* first.  The other parcels, read one after the other, list the           *)
(* non-oversized items of the input, each once, in non-increasing order of *)
(* weight; such a parcel is not empty, records the sum of its items and    *)
(* stays within the cap; and the item that opens the next parcel did not   *)
(* fit into the one before it.  So an item joins the current parcel        *)
(* exactly when it fits, and a closed parcel receives nothing more.        *)
(***************************************************************************)
C25_GreedyNextFit ==
    Split
    => LET packed == SelectSeq(out.parcels, IsPackedParcel)
           placed == Flatten(packed)
           given == SelectSeq(out.items, FitsCap)
           cap == CapGrams(out.maxWeight)
       IN /\ \A i, j \in 1..Len(out.parcels) :
                (i < j /\ IsSplitParcel(out.parcels[j])) => IsSplitParcel(out.parcels[i])
          /\ Len(placed) = Len(given)
          /\ \E f \in Bijections(Len(given)) :
                \A k \in 1..Len(given) : placed[k] = given[f[k]]
          /\ \A k \in 1..Len(placed) - 1 :
                ItemGrams(placed[k]) >= ItemGrams(placed[k + 1])
          /\ \A j \in 1..Len(packed) :
                /\ Len(packed[j].items) > 0
                /\ packed[j].weight.n = ParcelGrams(packed[j])
                /\ packed[j].weight.n * cap.d <= cap.n
          /\ \A j \in 1..Len(packed) - 1 :
                (packed[j].weight.n + ItemGrams(packed[j + 1].items[1])) * cap.d > cap.n

\* 10, 20 and 16 kg under the 31.5 kg cap: the 20 kg item alone, since the
\* 16 kg item does not fit next to it, then 16 kg and 10 kg together
C25_Witness ==
    /\ Split
    /\ out.maxWeight = defaultMaxWeight
    /\ out.items = <<Item(Num(5000), Num(2)), Item(Num(20000), Num(1)),
                     Item(Num(16000), Num(1))>>
    /\ Len(out.parcels) = 2
    /\ out.parcels[1].items = <<Item(Num(20000), Num(1))>>
    /\ out.parcels[2].items = <<Item(Num(16000), Num(1)), Item(Num(5000), Num(2))>>

(***************************************************************************)
(* C22.  After any sequence of admin carrier operations (add, update,      *)
(* delete) no two stored carriers have names that are equal ignoring case, *)
(* in the in-memory array and in the carriers table alike.                 *)
(***************************************************************************)
C22_NamesUniqueIgnoringCase ==
    /\ \A i, j \in 1..Len(carriers) :
          Lowered(carriers[i].name) = Lowered(carriers[j].name) => i = j
    /\ \A r, q \in table :
          Lowered(r.name) = Lowered(q.name) => r = q

(***************************************************************************)
(* C23.  After any sequence of admin POST and PUT carrier requests, also   *)
(* ones whose price is a positive non-integer such as 0.5, every stored    *)
(* carrier has a price that is an integer strictly greater than 0.         *)
(***************************************************************************)
C23_PricesPositiveIntegers ==
    /\ \A i \in 1..Len(carriers) :
          IsInteger(carriers[i].price) /\ carriers[i].price.n > 0
    /\ \A r \in table :
          IsInteger(r.price) /\ r.price.n > 0

\* the step answers an admin request with the given method and status
Answers(method, statuses) ==
    /\ Idle
    /\ response' # NoResponse
    /\ response'.handler = method
    /\ response'.status \in statuses

(***************************************************************************)
(* C27.  A rejected admin carrier operation leaves the carriers as they    *)
(* were: whenever POST, PUT or DELETE /api/carriers answers 400 or 404,    *)
(* the carriers, their prices and their order are the same after the       *)
(* request as before it.                                                   *)
(***************************************************************************)
C27_RejectedLeavesCarriers ==
    [][ (\E method \in {"POST", "PUT", "DELETE"} : Answers(method, {400, 404}))
        => (carriers' = carriers /\ table' = table) ]_vars

\* a DELETE of a carrier deleted before was answered 404, Post being left
C27_Witness ==
    /\ store = "memory"
    /\ response # NoResponse
    /\ response.handler = "DELETE" /\ response.status = 404
    /\ response.name = "dpd"
    /\ carriers = <<[name |-> "Post", price |-> Num(1200)]>>

\* the array without its k-th element
Without(list, k) ==
    [j \in 1..(Len(list) - 1) |-> IF j < k THEN list[j] ELSE list[j + 1]]

(***************************************************************************)
(* C28.  A successful PUT /api/carriers/:name changes the price of the one *)
(* carrier it names and nothing else: the number of carriers, every name,  *)
(* the order and every other carrier's price stay.  A successful DELETE    *)
(* removes exactly the one carrier it names and changes no other.  (The    *)
(* in-memory handlers take the name ignoring case, the table exactly.)     *)
(***************************************************************************)
C28_PutAndDeleteFrame ==
    [][ /\ Answers("PUT", {200})
           => /\ Len(carriers') = Len(carriers)
              /\ \A k \in 1..Len(carriers) :
                    /\ carriers'[k].name = carriers[k].name
                    /\ Lowered(carriers[k].name) # Lowered(response'.name)
                          => carriers'[k] = carriers[k]
              /\ Cardinality(table') = Cardinality(table)
              /\ {r.name : r \in table'} = {r.name : r \in table}
              /\ \A r \in table : r.name # response'.name => r \in table'
        /\ Answers("DELETE", {200})
           => /\ store = "memory"
                    => \E k \in 1..Len(carriers) :
                          /\ Lowered(carriers[k].name) = Lowered(response'.name)
                          /\ carriers' = Without(carriers, k)
              /\ store = "database"
                    => \E r \in table :
                          /\ r.name = response'.name
                          /\ table' = table \ {r}
              /\ store = "memory" => table' = table
              /\ store = "database" => carriers' = carriers ]_vars

\* the table holds DPD, Post and dpd, and a PUT has just repriced dpd alone
C28_Witness ==
    /\ store = "database"
    /\ response # NoResponse
    /\ response.handler = "PUT" /\ response.status = 200
    /\ response.name = "dpd"
    /\ table = {[name |-> "DPD", price |-> Num(1000)],
                [name |-> "Post", price |-> Num(1200)],
                [name |-> "dpd", price |-> Num(1200)]}

Asked == out # NoCall /\ out.fn = "POST /carrier-service"

(***************************************************************************)
(* C29.  The implementations of the rate endpoint are equivalent: for the  *)
(* same request body, the same non-empty carrier list and the same clock,  *)
(* the route module, the inline handler of the database revision and the   *)
(* in-memory inline handler answer with the same status code and the same  *)
(* response body.                                                          *)
(***************************************************************************)
C29_HandlersEquivalent ==
    Asked
    => /\ out.route.status = out.database.status
       /\ out.route.body = out.database.body
       /\ out.route.status = out.memory.status
       /\ out.route.body = out.memory.body
       /\ out.route.sent = out.memory.sent
       /\ out.database.sent = out.memory.sent

\* 40 kg over DPD 1000 / Post 1200, with the clock ticking after the first
\* reading: all three answer 200 with the DPD quote of 2000
C29_Witness ==
    /\ Asked
    /\ out.tickAt = 1
    /\ out.request.rate # Undefined
    /\ out.request.rate.items = FortyKg
    /\ out.memory.status = 200
    /\ out.route.status = 200
    /\ out.database.status = 200
    /\ out.route.rates[1].service_code = "dpd"
    /\ out.route.rates[1].total_price = Num(2000)
    /\ out.memory.rates = out.route.rates

(***************************************************************************)
(* C24.  A rate request is answered from one snapshot of the carriers:     *)
(* when admin add, update and delete requests are served between the       *)
(* handler's read of the carriers and its answer, the rate returned is the *)
(* cheapest quote over the carriers as they were when they were read (an   *)
(* empty rates list if there were none), never a quote of a carrier or a   *)
(* price that only the later state has.  (While no later request waits,    *)
(* prev is the read of the request just answered.)                         *)
(***************************************************************************)
C24_SingleSnapshot ==
    (IsRate /\ prev # NoCall /\ args = NoArgs)
    => /\ response.status = 200
       /\ {response.carriers[k] : k \in 1..Len(response.carriers)} = prev.table
       /\ prev.table = {} => response.body.rates = <<>>
       /\ prev.table # {}
             => /\ Len(response.body.rates) = 1
                /\ \E c \in prev.table :
                      LET p == response.log.parcels.n
                          rate == response.body.rates[1]
                      IN /\ rate.service_code = Lowered(c.name)
                         /\ rate.service_name = Label(c.name, p)
                         /\ rate.total_price.n = c.price.n * p
                         /\ \A d \in prev.table : c.price.n * p <= d.price.n * p

\* DPD was deleted while the route module waited with both carriers read:
\* it quotes DPD
C24_Witness ==
    /\ IsRate /\ response.handler = "route"
    /\ prev # NoCall /\ args = NoArgs
    /\ prev.table = {[name |-> "DPD", price |-> Num(1000)],
                     [name |-> "Post", price |-> Num(1200)]}
    /\ table = {[name |-> "Post", price |-> Num(1200)]}
    /\ response.body.rates[1].service_code = "dpd"
    /\ response.body.rates[1].total_price.n = 2000

\* the tunnel URLs the pattern found in the chunks heard so far, in order
Found == SelectSeq(launcher.heard, LAMBDA h : h.url # Null)

WrittenTo(file) == Len(SelectSeq(launcher.written, LAMBDA f : f = file))

(***************************************************************************)
(* C30.  Whatever chunks cloudflared emits on stdout and stderr, and in    *)
(* whatever order: tunnelUrl is the first match among them (null while     *)
(* there is none), the development server is spawned once, with that URL   *)
(* as HOST, when the first match arrives and never again, and .env is      *)
(* written at most once (once if the file exists).  Later chunks with a    *)
(* tunnel URL, the same or another, start nothing.                         *)
(***************************************************************************)
C30_StartedOnce ==
    launcher # NotLaunched =>
       /\ Len(launcher.shopify) <= 1
       /\ WrittenTo(".env") <= 1
       /\ WrittenTo("shopify.app.toml") <= 1
       /\ Found = <<>> =>
             /\ launcher.tunnelUrl = Null
             /\ launcher.shopify = <<>>
             /\ launcher.written = <<>>
       /\ Found # <<>> =>
             /\ launcher.tunnelUrl = Found[1].url
             /\ launcher.shopify = <<[HOST |-> Found[1].url]>>
             /\ WrittenTo(".env") = IF launcher.env.exists THEN 1 ELSE 0

\* a URL on stderr has started the dev server and rewritten .env, and a
\* later chunk on stdout has carried another URL
C30_Witness ==
    /\ launcher # NotLaunched
    /\ Len(Found) >= 2
    /\ Found[1].stream = "stderr" /\ Found[2].stream = "stdout"
    /\ Found[2].url # Found[1].url
    /\ Len(launcher.shopify) = 1
    /\ WrittenTo(".env") = 1

====
